---- MODULE Spec2Model ----
(***************************************************************************)
(* Model of the screening-strategy dashboard (src/main.py): the strategy   *)
(* catalog, the memoized per-strategy loader, the metrics aggregator, the  *)
(* summary builder load_all_strategies and the render pass of main.        *)
(*                                                                         *)
(* Python values are tagged records ([kind |-> ...]) so that None, a       *)
(* DataFrame, a metrics dict and a raised exception can be told apart.     *)
(* An exception that leaves a function is the result [kind |-> "raise"].   *)
(***************************************************************************)
EXTENDS Integers, Sequences, FiniteSets, TLC

VARIABLES
    pc,                 \* position of the running script / of the driver
    STRATEGY_DEFINITIONS, \* the module-level catalog dict
    strategy_num,       \* loop variable of load_all_strategies
    results,            \* local list of row dicts of load_all_strategies
    age_distributions,  \* local dict id -> DataFrame of load_all_strategies
    cache,              \* st.cache_data store of load_strategy_data, by id
    reads,              \* number of pd.read_csv calls issued per id
    warned,             \* ids for which st.warning("File ... not found") ran
    error,              \* the exception that ended the script, or NoError
    shown,              \* what main has rendered so far
    df_arg,             \* the DataFrame handed to calculate_metrics
    metrics,            \* the value calculate_metrics returned
    last,               \* id and result of the latest load_strategy_data call
    first,              \* per id, the first result load_strategy_data returned
    calls               \* load_strategy_data calls issued by the driver

vars == <<pc, STRATEGY_DEFINITIONS, strategy_num, results, age_distributions,
          cache, reads, warned, error, shown, df_arg, metrics, last,
          first, calls>>

-----------------------------------------------------------------------------
(* Bounds of the model *)

\* longest series handed to calculate_metrics in SpecAgg
MaxRows == 3
\* most count columns a DataFrame of SpecAgg may lack
MaxMissing == 1
\* number of trailing catalog ids whose resource content varies in Spec
MaxVaried == 1
\* ids 1..MaxLoadId are requested by the driver of SpecLoad
MaxLoadId == 2
\* load_strategy_data calls issued by the driver of SpecLoad
MaxCalls == 4

-----------------------------------------------------------------------------
(* Python values *)

None == [kind |-> "None"]
NoError == [kind |-> "none"]
Raise(exc, what) == [kind |-> "raise", exc |-> exc, what |-> what]
IsRaise(v) == v.kind = "raise"

\* Optional int: <<>> is None, <<n>> is n.  Python truthiness of it.
Truthy(opt) == opt # <<>> /\ opt[1] # 0

-----------------------------------------------------------------------------
(* StrategyCatalog *)

\* variant of Def: start_age and end_age are exchanged
DefSwappedAges(display, name, test, start_age, end_age, switch_age, exit_tests, interval) ==
    [display |-> display, name |-> name, test |-> test,
     start_age |-> end_age, end_age |-> start_age, switch_age |-> switch_age,
     exit_tests |-> exit_tests, interval |-> interval]

Def(display, name, test, start_age, end_age, switch_age, exit_tests, interval) ==
    [display |-> display, name |-> name, test |-> test,
     start_age |-> start_age, end_age |-> end_age, switch_age |-> switch_age,
     exit_tests |-> exit_tests, interval |-> interval]

\* A str is the sequence of its characters: "10" is <<"1","0">>.
StrategyCatalog ==
    1 :> Def(<<"1">>, "CYTO-3Y, 21-65", "Cyto only", 21, 65, <<>>, 3, "3Y")
 @@ 2 :> Def(<<"2">>, "CYTO-3Y, 21/HPV-5Y, 30-65", "Cyto->HPV", 21, 65, <<30>>, 2, "3Y->5Y")
 @@ 3 :> Def(<<"3">>, "CYTO-3Y, 21/COTEST-5Y, 30-65", "Cyto->Cotest", 21, 65, <<30>>, 2, "3Y->5Y")
 @@ 4 :> Def(<<"4">>, "CYTO-3Y, 21-70", "Cyto only", 21, 70, <<>>, 3, "3Y")
 @@ 5 :> Def(<<"5">>, "CYTO-3Y, 21/HPV-5Y, 30-70", "Cyto->HPV", 21, 70, <<30>>, 2, "3Y->5Y")
 @@ 6 :> Def(<<"6">>, "CYTO-3Y, 21/COTEST-5Y, 30-70", "Cyto->Cotest", 21, 70, <<30>>, 2, "3Y->5Y")
 @@ 7 :> Def(<<"7">>, "CYTO-3Y, 21-75", "Cyto only", 21, 75, <<>>, 3, "3Y")
 @@ 8 :> Def(<<"8">>, "CYTO-3Y, 21/HPV-5Y, 30-75", "Cyto->HPV", 21, 75, <<30>>, 2, "3Y->5Y")
 @@ 9 :> Def(<<"9">>, "CYTO-3Y, 21/COTEST-5Y, 30-75", "Cyto->Cotest", 21, 75, <<30>>, 2, "3Y->5Y")
 @@ 10 :> Def(<<"1","0">>, "CYTO-3Y, 21/HPV-5Y, 30-65 (1 exit)", "Cyto->HPV", 21, 65, <<30>>, 1, "3Y->5Y")
 @@ 11 :> Def(<<"1","1">>, "CYTO-3Y, 21/COTEST-5Y, 30-65 (1 exit)", "Cyto->Cotest", 21, 65, <<30>>, 1, "3Y->5Y")
 @@ 12 :> Def(<<"1","2">>, "CYTO-3Y, 21/HPV-5Y, 30-70 (1 exit)", "Cyto->HPV", 21, 70, <<30>>, 1, "3Y->5Y")
 @@ 13 :> Def(<<"1","3">>, "CYTO-3Y, 21/COTEST-5Y, 30-70 (1 exit)", "Cyto->Cotest", 21, 70, <<30>>, 1, "3Y->5Y")
 @@ 14 :> Def(<<"1","4">>, "CYTO-3Y, 21/HPV-5Y, 30-75 (1 exit)", "Cyto->HPV", 21, 75, <<30>>, 1, "3Y->5Y")
 @@ 15 :> Def(<<"1","5">>, "CYTO-3Y, 21/COTEST-5Y, 30-75 (1 exit)", "Cyto->Cotest", 21, 75, <<30>>, 1, "3Y->5Y")

\* range(1, 16)
StrategyRange == 1..15

-----------------------------------------------------------------------------
(* DataFrames: [kind |-> "df", columns |-> set of names, rows |-> sequence   *)
(* of functions columns -> Int]                                             *)

CountColumns == {"Cancer", "Cancer death", "Population", "Total test", "Cyto",
                 "HPV", "Cotest", "CIN2 detected", "CIN3 detected"}
AllColumns == {"Age"} \cup CountColumns

Row(age, cancer, death, pop, tests, cyto, hpv, cotest, cin2, cin3) ==
    [c \in AllColumns |->
        CASE c = "Age" -> age
          [] c = "Cancer" -> cancer
          [] c = "Cancer death" -> death
          [] c = "Population" -> pop
          [] c = "Total test" -> tests
          [] c = "Cyto" -> cyto
          [] c = "HPV" -> hpv
          [] c = "Cotest" -> cotest
          [] c = "CIN2 detected" -> cin2
          [] OTHER -> cin3]

Frame(columns, rows) ==
    [kind |-> "df", columns |-> columns,
     rows |-> [i \in 1..Len(rows) |-> [c \in columns |-> rows[i][c]]]]

\* variant of ColumnSum: only the rows of screening age (Age >= 21) are added
RECURSIVE SumScreeningAges(_, _, _)
SumScreeningAges(rows, col, i) ==
    IF i > Len(rows) THEN 0
    ELSE (IF rows[i]["Age"] >= 21 THEN rows[i][col] ELSE 0)
         + SumScreeningAges(rows, col, i + 1)

ColumnSumScreeningAges(df, col) == SumScreeningAges(df.rows, col, 1)

\* df['col'].sum(): the column's values added up in row order
RECURSIVE SumFrom(_, _, _)
SumFrom(rows, col, i) ==
    IF i > Len(rows) THEN 0 ELSE rows[i][col] + SumFrom(rows, col, i + 1)

ColumnSum(df, col) == SumFrom(df.rows, col, 1)

-----------------------------------------------------------------------------
(* MetricsAggregator: calculate_metrics *)

RECURSIVE GCD(_, _)
GCD(a, b) == IF b = 0 THEN a ELSE GCD(b, a % b)

\* A float result, kept exact: the fraction n/d in lowest terms.
Num(n, d) == LET g == GCD(n, d) IN [kind |-> "num", n |-> n \div g, d |-> d \div g]

\* the literal 0 of the else branches
Zero == [kind |-> "num", n |-> 0, d |-> 1]

\* a / b on the numpy scalars that .sum() returns: a zero divisor gives
\* nan (0/0) or inf (x/0) with a RuntimeWarning, not an exception
TrueDiv(a, b) ==
    IF b = 0 THEN [kind |-> IF a = 0 THEN "nan" ELSE "inf", n |-> a, d |-> 0]
    ELSE Num(a, b)

\* q * k for a float q and an int literal k
Times(q, k) == IF q.kind = "num" THEN Num(q.n * k, q.d) ELSE q

\* 'col' in df.columns
HasColumn(df, col) == col \in df.columns

\* df['col'].sum() if 'col' in df.columns else 0
OptionalSum(df, col) == IF HasColumn(df, col) THEN ColumnSum(df, col) ELSE 0

\* the columns read without a presence test, in evaluation order
RequiredColumns == <<"Cancer", "Cancer death", "Population">>

\* the first required column that df lacks: df['col'] raises KeyError on it
MissingRequired(df) ==
    LET miss == {i \in 1..Len(RequiredColumns) : ~HasColumn(df, RequiredColumns[i])}
    IN  IF miss = {} THEN <<>>
        ELSE <<RequiredColumns[CHOOSE i \in miss : \A j \in miss : i <= j]>>

\* variant of case_fatality_rate: the division is not guarded
case_fatality_rate_unguarded(total_cancers, total_cancer_deaths) ==
    Times(TrueDiv(total_cancer_deaths, total_cancers), 100)

case_fatality_rate(total_cancers, total_cancer_deaths) ==
    IF total_cancers > 0
    THEN Times(TrueDiv(total_cancer_deaths, total_cancers), 100)
    ELSE Zero

cancer_rate_per_100k(total_cancers, total_life_years) ==
    IF total_life_years > 0
    THEN Times(TrueDiv(total_cancers, total_life_years), 100000)
    ELSE Zero

death_rate_per_100k(total_cancer_deaths, total_life_years) ==
    IF total_life_years > 0
    THEN Times(TrueDiv(total_cancer_deaths, total_life_years), 100000)
    ELSE Zero

\* the dict literal of the totals
Totals(df) ==
    [total_cancers |-> ColumnSum(df, "Cancer"),
     total_cancer_deaths |-> ColumnSum(df, "Cancer death"),
     total_life_years |-> ColumnSum(df, "Population"),
     total_tests |-> OptionalSum(df, "Total test"),
     total_cyto |-> OptionalSum(df, "Cyto"),
     total_hpv |-> OptionalSum(df, "HPV"),
     total_cotest |-> OptionalSum(df, "Cotest"),
     total_cin2_detected |-> OptionalSum(df, "CIN2 detected"),
     total_cin3_detected |-> OptionalSum(df, "CIN3 detected")]

calculate_metrics(df) ==
    IF df.kind = "None" THEN None
    ELSE IF MissingRequired(df) # <<>>
    THEN Raise("KeyError", MissingRequired(df)[1])
    ELSE LET t == Totals(df) IN
         [kind |-> "metrics",
          total_cancers |-> t.total_cancers,
          total_cancer_deaths |-> t.total_cancer_deaths,
          total_life_years |-> t.total_life_years,
          total_tests |-> t.total_tests,
          total_cyto |-> t.total_cyto,
          total_hpv |-> t.total_hpv,
          total_cotest |-> t.total_cotest,
          total_cin2_detected |-> t.total_cin2_detected,
          total_cin3_detected |-> t.total_cin3_detected,
          case_fatality_rate |->
              case_fatality_rate(t.total_cancers, t.total_cancer_deaths),
          cancer_rate_per_100k |->
              cancer_rate_per_100k(t.total_cancers, t.total_life_years),
          death_rate_per_100k |->
              death_rate_per_100k(t.total_cancer_deaths, t.total_life_years)]

-----------------------------------------------------------------------------
(* Sample resources *)

\* Rows of a per-strategy table: ages 1..3 carry the counts Cancer=[1,2,3],
\* Cancer death=[0,1,1], Population=[100,100,100]; age 50 is all zero; age
\* 100 has deaths without cancers and no person-time.
RowPool ==
    << Row(1, 1, 0, 100, 4, 2, 1, 1, 1, 0),
       Row(2, 2, 1, 100, 6, 3, 2, 1, 0, 1),
       Row(3, 3, 1, 100, 5, 5, 0, 0, 2, 2),
       Row(50, 0, 0, 0, 0, 0, 0, 0, 0, 0),
       Row(100, 0, 5, 0, 3, 1, 1, 1, 1, 1) >>

Injective(f) == \A i, j \in DOMAIN f : f[i] = f[j] => i = j

\* the series of at most n distinct pool rows (ages within a series are unique)
SeriesUpTo(n) ==
    {[i \in DOMAIN ix |-> RowPool[ix[i]]] :
        ix \in {f \in UNION {[1..k -> 1..Len(RowPool)] : k \in 0..n} : Injective(f)}}

\* the column sets lacking at most n of the count columns
ColumnSetsLacking(n) ==
    {AllColumns \ miss : miss \in {m \in SUBSET CountColumns : Cardinality(m) <= n}}

\* a complete, ordinary table
SampleFrame == Frame(AllColumns, <<RowPool[1], RowPool[2], RowPool[3]>>)
\* a table whose counts are all zero
ZeroFrame == Frame(AllColumns, <<RowPool[4]>>)
\* a table with only Age and the three outcome columns
OutcomesOnlyFrame ==
    Frame({"Age", "Cancer", "Cancer death", "Population"},
          <<RowPool[1], RowPool[2], RowPool[3]>>)
\* a table without the Cancer column
NoCancerFrame == Frame(AllColumns \ {"Cancer"}, <<RowPool[1], RowPool[2]>>)

\* what pd.read_csv(filename) can do for the resource of strategy id: raise
\* FileNotFoundError, raise another error (the file exists but cannot be
\* opened), or return the parsed table
ReadOutcomes(id) ==
    {Raise("FileNotFoundError", id), Raise("PermissionError", id), SampleFrame}
    \cup (IF id > 15 - MaxVaried
          THEN {ZeroFrame, OutcomesOnlyFrame, NoCancerFrame} ELSE {})

-----------------------------------------------------------------------------
(* StrategyTable loader: load_strategy_data under @st.cache_data *)

Miss == [kind |-> "miss"]

\* One call load_strategy_data(num) with cache entry `entry`, where
\* `csv` is what pd.read_csv would do now.  st.cache_data returns a stored
\* value without running the body; it stores the value the body returns
\* (None included) and stores nothing when the body raises.
load_strategy_data(num, entry, csv) ==
    IF entry.kind # "miss"
    THEN [result |-> entry, read |-> FALSE, store |-> FALSE, warning |-> FALSE]
    ELSE IF ~IsRaise(csv)
    THEN [result |-> csv, read |-> TRUE, store |-> TRUE, warning |-> FALSE]
    ELSE IF csv.exc = "FileNotFoundError"
    THEN [result |-> None, read |-> TRUE, store |-> TRUE, warning |-> TRUE]
    ELSE [result |-> csv, read |-> TRUE, store |-> FALSE, warning |-> FALSE]

\* the effect of that call on the loader's state
CallLoad(id, out) ==
    /\ cache' = IF out.store THEN [cache EXCEPT ![id] = out.result] ELSE cache
    /\ reads' = IF out.read THEN [reads EXCEPT ![id] = @ + 1] ELSE reads
    /\ warned' = IF out.warning THEN warned \cup {id} ELSE warned
    /\ last' = [id |-> id, result |-> out.result]
    /\ first' = IF first[id].kind = "miss" /\ ~IsRaise(out.result)
                THEN [first EXCEPT ![id] = out.result] ELSE first

-----------------------------------------------------------------------------
(* CohortSummaryBuilder: load_all_strategies *)

\* the row dict built from the catalog entry and the metrics
ResultRow(num, strategy_info, m) ==
    [Strategy |-> num,
     Display |-> strategy_info.display,
     Name |-> strategy_info.name,
     Test_Type |-> strategy_info.test,
     Start_Age |-> strategy_info.start_age,
     End_Age |-> strategy_info.end_age,
     Switch_Age |-> IF Truthy(strategy_info.switch_age)
                    THEN strategy_info.switch_age ELSE <<"-">>,
     Exit_Tests |-> strategy_info.exit_tests,
     Interval |-> strategy_info.interval,
     metrics |-> m]

\* variant of LoopBody: a failed load is given a zero-filled row
LoopBodyZeroFill(num, df, m, res, dists, catalog) ==
    IF df.kind = "None"
    THEN [results |-> Append(res, ResultRow(num, catalog[num],
                                            calculate_metrics(ZeroFrame))),
          age_distributions |-> dists]
    ELSE [results |-> Append(res, ResultRow(num, catalog[num], m)),
          age_distributions |-> dists @@ (num :> df)]

\* variant of LoopBody: age_distributions is written before the None test
LoopBodyStoreFirst(num, df, m, res, dists, catalog) ==
    IF df.kind = "None"
    THEN [results |-> res, age_distributions |-> dists @@ (num :> df)]
    ELSE [results |-> Append(res, ResultRow(num, catalog[num], m)),
          age_distributions |-> dists @@ (num :> df)]

\* variant of LoopBody: metrics without life years count as None, so the
\* table is stored and the row is skipped
LoopBodySkipZero(num, df, m, res, dists, catalog) ==
    IF df.kind = "None" THEN [results |-> res, age_distributions |-> dists]
    ELSE IF m.kind = "None" \/ m.total_life_years = 0
    THEN [results |-> res, age_distributions |-> dists @@ (num :> df)]
    ELSE [results |-> Append(res, ResultRow(num, catalog[num], m)),
          age_distributions |-> dists @@ (num :> df)]

\* variant of LoopBody: the new row is put in front of the rows
LoopBodyPrepend(num, df, m, res, dists, catalog) ==
    IF df.kind = "None" THEN [results |-> res, age_distributions |-> dists]
    ELSE [results |-> <<ResultRow(num, catalog[num], m)>> \o res,
          age_distributions |-> dists @@ (num :> df)]

\* the body of `for strategy_num in range(1, 16)` once df and metrics are
\* known: the new values of the locals results and age_distributions
LoopBody(num, df, m, res, dists, catalog) ==
    IF df.kind = "None" THEN [results |-> res, age_distributions |-> dists]
    ELSE IF m.kind = "None"
    THEN [results |-> res, age_distributions |-> dists @@ (num :> df)]
    ELSE [results |-> Append(res, ResultRow(num, catalog[num], m)),
          age_distributions |-> dists @@ (num :> df)]

\* an uncaught exception ends the script: the locals of the running
\* functions are gone, the caches stay
Crash(exc) ==
    /\ pc' = "raised"
    /\ error' = exc
    /\ results' = <<>>
    /\ age_distributions' = <<>>
    /\ UNCHANGED <<STRATEGY_DEFINITIONS, strategy_num, shown, df_arg, metrics, calls>>

\* one iteration of `for strategy_num in range(1, 16)`
LoadStep ==
    /\ pc = "build"
    /\ strategy_num \in StrategyRange
    /\ \E csv \in ReadOutcomes(strategy_num) :
         LET out == load_strategy_data(strategy_num, cache[strategy_num], csv)
             df == out.result
             m == calculate_metrics(df)
             locals == LoopBody(strategy_num, df, m, results, age_distributions,
                                STRATEGY_DEFINITIONS)
         IN  /\ CallLoad(strategy_num, out)
             /\ IF IsRaise(df) THEN Crash(df)
                ELSE IF IsRaise(m) THEN Crash(m)
                ELSE IF m.kind = "metrics" /\ strategy_num \notin DOMAIN STRATEGY_DEFINITIONS
                THEN Crash(Raise("KeyError", "STRATEGY_DEFINITIONS"))
                ELSE /\ strategy_num' = strategy_num + 1
                     /\ results' = locals.results
                     /\ age_distributions' = locals.age_distributions
                     /\ UNCHANGED <<pc, STRATEGY_DEFINITIONS, error, shown,
                                    df_arg, metrics, calls>>

\* `return pd.DataFrame(results), age_distributions`, received by main
Return ==
    /\ pc = "build"
    /\ strategy_num \notin StrategyRange
    /\ pc' = "returned"
    /\ UNCHANGED <<STRATEGY_DEFINITIONS, strategy_num, results, age_distributions,
                   cache, reads, warned, error, shown, df_arg, metrics, last,
                   first, calls>>

-----------------------------------------------------------------------------
(* Presentation: the display sort key and the tables and charts of main *)

Digits == {"0", "1", "2", "3", "4", "5", "6", "7", "8", "9"}

\* x.isdigit()
isdigit(x) == Len(x) > 0 /\ \A i \in 1..Len(x) : x[i] \in Digits

DigitValues ==
    ("0" :> 0) @@ ("1" :> 1) @@ ("2" :> 2) @@ ("3" :> 3) @@ ("4" :> 4) @@
    ("5" :> 5) @@ ("6" :> 6) @@ ("7" :> 7) @@ ("8" :> 8) @@ ("9" :> 9)

DigitValue(c) == DigitValues[c]

\* int(x) of a digit string, most significant digit first
RECURSIVE IntOfPrefix(_, _)
IntOfPrefix(x, n) ==
    IF n = 0 THEN 0 ELSE 10 * IntOfPrefix(x, n - 1) + DigitValue(x[n])

int(x) == IntOfPrefix(x, Len(x))

\* the lambda of create_strategy_overview_table
sort_key_overview(x) ==
    LET digits == isdigit(x)
        n == int(x)
    IN  IF digits /\ n <= 9 THEN n
        ELSE IF digits THEN n + 3 ELSE 999

\* variant of sort_key_detail: the offset of the higher ids is left out
sort_key_detail_plain(x) == IF isdigit(x) THEN int(x) ELSE 999

\* the lambda of main's detailed comparison table
sort_key_detail(x) ==
    LET digits == isdigit(x)
        n == int(x)
    IN  IF digits /\ n <= 9 THEN n
        ELSE IF digits THEN n + 3 ELSE 999

\* DataFrame.sort_values on a key column: the rows in ascending key order
\* (rows with equal keys in their given order), by insertion
RECURSIVE Position(_, _, _)
Position(sorted, key, n) ==
    IF n = 0 \/ sorted[n].key <= key THEN n ELSE Position(sorted, key, n - 1)

InsertByKey(sorted, e) ==
    LET p == Position(sorted, e.key, Len(sorted))
    IN  SubSeq(sorted, 1, p) \o <<e>> \o SubSeq(sorted, p + 1, Len(sorted))

RECURSIVE SortPrefix(_, _, _)
SortPrefix(rows, keys, n) ==
    IF n = 0 THEN <<>>
    ELSE InsertByKey(SortPrefix(rows, keys, n - 1), [key |-> keys[n], row |-> rows[n]])

sort_values(rows, keys) ==
    LET sorted == SortPrefix(rows, keys, Len(rows))
    IN  [i \in 1..Len(sorted) |-> sorted[i].row]

\* variant of Empty: the test `df is None`, false of every DataFrame
EmptyIsNone(df) == FALSE

\* df.empty
Empty(df) == Len(df) = 0

create_strategy_overview_table(df) ==
    LET display_df == [i \in DOMAIN df |->
            [Strategy |-> df[i].Display, Description |-> df[i].Name,
             Test_Type |-> df[i].Test_Type, Start_Age |-> df[i].Start_Age,
             End_Age |-> df[i].End_Age, Switch_Age |-> df[i].Switch_Age,
             Exit_Tests |-> df[i].Exit_Tests, Interval |-> df[i].Interval]]
        sort_key == [i \in DOMAIN df |-> sort_key_overview(display_df[i].Strategy)]
    IN  sort_values(display_df, sort_key)

\* 'Cotest' in strategy_info['test']
MentionsCotest(test) == test = "Cyto->Cotest"

\* the first column the traces of one strategy read that df lacks, as
\* <<column>>, or <<>>: Age and Cyto, then HPV if the strategy has a switch
\* age, then Cotest if its test mentions it
LackingColumn(df, strategy_info) ==
    IF ~HasColumn(df, "Age") THEN <<"Age">>
    ELSE IF ~HasColumn(df, "Cyto") THEN <<"Cyto">>
    ELSE IF ~Truthy(strategy_info.switch_age) THEN <<>>
    ELSE IF ~HasColumn(df, "HPV") THEN <<"HPV">>
    ELSE IF MentionsCotest(strategy_info.test) /\ ~HasColumn(df, "Cotest")
    THEN <<"Cotest">>
    ELSE <<>>

\* create_question_1_analysis: the ids plotted (those in age_distributions),
\* or the KeyError of the first column a plotted table lacks
create_question_1_analysis(dists, catalog) ==
    LET bad == {num \in DOMAIN dists : LackingColumn(dists[num], catalog[num]) # <<>>}
    IN  IF bad = {} THEN [kind |-> "fig", plotted |-> DOMAIN dists]
        ELSE LET num == CHOOSE n \in bad : \A o \in bad : n <= o
             IN  Raise("KeyError", LackingColumn(dists[num], catalog[num])[1])

\* the bar colour of one row of create_main_analysis_charts
BarColor(row) ==
    IF row.Exit_Tests = 1 THEN "#d62728"
    ELSE IF row.End_Age = 75 THEN "#2ca02c"
    ELSE IF row.End_Age = 70 THEN "#ff7f0e"
    ELSE "#1f77b4"

\* create_main_analysis_charts: the bars, in df.sort_values('Strategy') order
create_main_analysis_charts(df) ==
    LET df_sorted == sort_values(df, [i \in DOMAIN df |-> df[i].Strategy])
    IN  [i \in DOMAIN df_sorted |->
            [x |-> df_sorted[i].Display,
             color |-> BarColor(df_sorted[i]),
             total_cancers |-> df_sorted[i].metrics.total_cancers,
             total_cancer_deaths |-> df_sorted[i].metrics.total_cancer_deaths,
             total_life_years |-> df_sorted[i].metrics.total_life_years,
             total_tests |-> df_sorted[i].metrics.total_tests]]

\* round-half-even of n/d to an integer
RoundDiv(n, d) ==
    LET q == n \div d
        r == 2 * (n % d)
    IN  IF r < d THEN q ELSE IF r > d THEN q + 1
        ELSE IF q % 2 = 0 THEN q ELSE q + 1

RECURSIVE Pow10(_)
Pow10(k) == IF k = 0 THEN 1 ELSE 10 * Pow10(k - 1)

\* f"{x:.kf}": the decimal text of x with k decimals, kept as the integer
\* x * 10^k rounded
Format(q, k) == [kind |-> "str", decimals |-> k, scaled |-> RoundDiv(q.n * Pow10(k), q.d)]

\* the detailed comparison table of main: a sorted, formatted copy
DetailTable(df) ==
    LET display_df == [i \in DOMAIN df |->
            [Strategy |-> df[i].Display, Description |-> df[i].Name,
             Test_Type |-> df[i].Test_Type, End_Age |-> df[i].End_Age,
             Exit_Tests |-> df[i].Exit_Tests,
             Total_Cancers |-> df[i].metrics.total_cancers,
             Total_Deaths |-> df[i].metrics.total_cancer_deaths,
             Total_Life_Years |-> df[i].metrics.total_life_years,
             Case_Fatality |-> df[i].metrics.case_fatality_rate,
             Cancer_Rate |-> df[i].metrics.cancer_rate_per_100k,
             Death_Rate |-> df[i].metrics.death_rate_per_100k]]
        sort_key == [i \in DOMAIN df |-> sort_key_detail(display_df[i].Strategy)]
        sorted == sort_values(display_df, sort_key)
    IN  [i \in DOMAIN sorted |->
            [sorted[i] EXCEPT
                !.Total_Life_Years = Format([kind |-> "num", n |-> @, d |-> 1], 0),
                !.Case_Fatality = Format(@, 1),
                !.Cancer_Rate = Format(@, 2),
                !.Death_Rate = Format(@, 2)]]

\* variant of StoredAfterDetail: the formatting lambdas of the three rates
\* are applied to the stored columns, not to a copy
StoredAfterDetailInPlace(df) ==
    [i \in DOMAIN df |->
        [df[i] EXCEPT
            !.metrics.case_fatality_rate = Format(@, 1),
            !.metrics.cancer_rate_per_100k = Format(@, 2),
            !.metrics.death_rate_per_100k = Format(@, 2)]]

\* the summary df as main holds it once the detailed table is built:
\* display_df is a .copy() of a column selection, sort_values returns a new
\* frame and the formatting lambdas are assigned to columns of display_df,
\* so no statement writes to df
StoredAfterDetail(df) == df

\* df[col].idxmin(): the first position holding the least value
RECURSIVE IdxMinUpTo(_, _)
IdxMinUpTo(vals, n) ==
    IF n = 1 THEN 1
    ELSE LET i == IdxMinUpTo(vals, n - 1) IN IF vals[n] < vals[i] THEN n ELSE i

IdxMin(vals) == IdxMinUpTo(vals, Len(vals))

\* df[col].idxmax(): the first position holding the greatest value
RECURSIVE IdxMaxUpTo(_, _)
IdxMaxUpTo(vals, n) ==
    IF n = 1 THEN 1
    ELSE LET i == IdxMaxUpTo(vals, n - 1) IN IF vals[n] > vals[i] THEN n ELSE i

IdxMax(vals) == IdxMaxUpTo(vals, Len(vals))

\* the three best performers main reports, by Display
BestPerformers(df) ==
    [best_cancer |-> df[IdxMin([i \in DOMAIN df |-> df[i].metrics.total_cancers])].Display,
     best_death |-> df[IdxMin([i \in DOMAIN df |-> df[i].metrics.total_cancer_deaths])].Display,
     best_life |-> df[IdxMax([i \in DOMAIN df |-> df[i].metrics.total_life_years])].Display]

\* df.to_csv(index=False): one line per row, in row order, values as stored
to_csv(df) == [i \in DOMAIN df |-> <<df[i].Strategy, df[i].Display, df[i].metrics>>]

\* what main renders when the summary is not empty
PresentationSteps ==
    {"strategy_table", "q1_fig", "main_fig", "trend_fig", "display_df", "best", "csv"}

NothingShown == [steps |-> {}, strategy_table |-> <<>>, main_fig |-> <<>>,
                 display_df |-> <<>>, best |-> <<>>, csv |-> <<>>]

\* the rest of main once load_all_strategies has returned: the empty test,
\* then the overview table, the chart of question 1 (which may raise), the
\* outcome charts, the trend chart, the detailed table, the best performers
\* and the export
Render ==
    /\ pc = "returned"
    /\ LET fig == create_question_1_analysis(age_distributions, STRATEGY_DEFINITIONS)
           table == create_strategy_overview_table(results)
       IN  IF Empty(results)
           THEN /\ shown' = [shown EXCEPT !.steps = @ \cup {"error"}]
                /\ pc' = "stopped"
                /\ UNCHANGED <<STRATEGY_DEFINITIONS, strategy_num, results,
                               age_distributions, error, df_arg, metrics, calls>>
           ELSE IF IsRaise(fig)
           THEN /\ shown' = [shown EXCEPT !.steps = @ \cup {"strategy_table"},
                                          !.strategy_table = table]
                /\ pc' = "raised"
                /\ error' = fig
                /\ results' = <<>>
                /\ age_distributions' = <<>>
                /\ UNCHANGED <<STRATEGY_DEFINITIONS, strategy_num, df_arg,
                               metrics, calls>>
           ELSE /\ shown' = [steps |-> shown.steps \cup PresentationSteps,
                             strategy_table |-> table,
                             main_fig |-> create_main_analysis_charts(results),
                             display_df |-> DetailTable(results),
                             best |-> BestPerformers(StoredAfterDetail(results)),
                             csv |-> to_csv(StoredAfterDetail(results))]
                /\ pc' = "done"
                /\ results' = StoredAfterDetail(results)
                /\ UNCHANGED <<STRATEGY_DEFINITIONS, strategy_num,
                               age_distributions, error, df_arg, metrics, calls>>
    /\ UNCHANGED <<cache, reads, warned, last, first>>

Init ==
    /\ pc = "build"
    /\ STRATEGY_DEFINITIONS = StrategyCatalog
    /\ strategy_num = 1
    /\ results = <<>>
    /\ age_distributions = <<>>
    /\ cache = [id \in StrategyRange |-> Miss]
    /\ reads = [id \in StrategyRange |-> 0]
    /\ warned = {}
    /\ error = NoError
    /\ shown = NothingShown
    /\ df_arg = None
    /\ metrics = None
    /\ last = [id |-> 0, result |-> None]
    /\ first = [id \in StrategyRange |-> Miss]
    /\ calls = 0

Next == LoadStep \/ Return \/ Render

\* one render pass of main in a fresh process
Spec == Init /\ [][Next]_vars

\* the same pass, run by one thread that takes its next step whenever it has
\* one: the script is synchronous and nothing else is scheduled
SpecFair == Init /\ [][Next]_vars /\ WF_vars(Next)

-----------------------------------------------------------------------------
(* calculate_metrics applied to bounded tables *)

AggInputs ==
    {None} \cup {Frame(cols, rows) : cols \in ColumnSetsLacking(MaxMissing),
                                     rows \in SeriesUpTo(MaxRows)}

InitAgg ==
    /\ pc = "agg_call"
    /\ df_arg \in AggInputs
    /\ STRATEGY_DEFINITIONS = StrategyCatalog
    /\ strategy_num = 1
    /\ results = <<>>
    /\ age_distributions = <<>>
    /\ cache = [id \in StrategyRange |-> Miss]
    /\ reads = [id \in StrategyRange |-> 0]
    /\ warned = {}
    /\ error = NoError
    /\ shown = NothingShown
    /\ metrics = None
    /\ last = [id |-> 0, result |-> None]
    /\ first = [id \in StrategyRange |-> Miss]
    /\ calls = 0

Aggregate ==
    /\ pc = "agg_call"
    /\ metrics' = calculate_metrics(df_arg)
    /\ pc' = IF IsRaise(metrics') THEN "agg_raised" ELSE "agg_done"
    /\ UNCHANGED <<STRATEGY_DEFINITIONS, strategy_num, results, age_distributions,
                   cache, reads, warned, error, shown, df_arg, last, first, calls>>

NextAgg == Aggregate

SpecAgg == InitAgg /\ [][NextAgg]_vars

-----------------------------------------------------------------------------
(* load_strategy_data called repeatedly, as by successive runs of the script *)

InitLoad ==
    /\ pc = "driver"
    /\ STRATEGY_DEFINITIONS = StrategyCatalog
    /\ strategy_num = 1
    /\ results = <<>>
    /\ age_distributions = <<>>
    /\ cache = [id \in StrategyRange |-> Miss]
    /\ reads = [id \in StrategyRange |-> 0]
    /\ warned = {}
    /\ error = NoError
    /\ shown = NothingShown
    /\ df_arg = None
    /\ metrics = None
    /\ last = [id |-> 0, result |-> None]
    /\ first = [id \in StrategyRange |-> Miss]
    /\ calls = 0

\* one call load_strategy_data(id); the resource may have changed since the
\* previous call
LoadCall ==
    /\ pc = "driver"
    /\ calls < MaxCalls
    /\ \E id \in 1..MaxLoadId :
         \E csv \in {Raise("FileNotFoundError", id), Raise("PermissionError", id),
                     SampleFrame, ZeroFrame} :
            CallLoad(id, load_strategy_data(id, cache[id], csv))
    /\ calls' = calls + 1
    /\ UNCHANGED <<pc, STRATEGY_DEFINITIONS, strategy_num, results,
                   age_distributions, error, shown, df_arg, metrics>>

NextLoad == LoadCall

SpecLoad == InitLoad /\ [][NextLoad]_vars

-----------------------------------------------------------------------------
(* Properties *)

\* the ids whose load returned None (not found) / a table
NotFoundIds == {id \in StrategyRange : cache[id].kind = "None"}
LoadedIds == {id \in StrategyRange : cache[id].kind = "df"}

\* the ids that have a row in the summary
RowIds == {results[i].Strategy : i \in DOMAIN results}

\* the ids the loop of load_all_strategies has dealt with
Processed == IF pc = "build" THEN 1..(strategy_num - 1) ELSE StrategyRange

\* load_all_strategies has returned and main holds its result
Built == pc \in {"returned", "stopped", "done"}

AllZero(m) ==
    /\ m.total_cancers = 0 /\ m.total_cancer_deaths = 0 /\ m.total_life_years = 0
    /\ m.total_tests = 0 /\ m.total_cyto = 0 /\ m.total_hpv = 0
    /\ m.total_cotest = 0 /\ m.total_cin2_detected = 0 /\ m.total_cin3_detected = 0
    /\ m.case_fatality_rate = Zero /\ m.cancer_rate_per_100k = Zero
    /\ m.death_rate_per_100k = Zero

\* C1: while load_all_strategies runs and in what it returns, an id has a row
\* in the summary exactly if its load returned a table: a load that returned
\* None adds no row, a loaded table adds one row even when its counts are all
\* zero, no id has two rows, and the returned summary has 15 - |F| rows, F
\* being the ids whose load returned None.
C1_RowsIffLoaded ==
    pc # "raised" =>
        LET rows == RowIds
            loaded == LoadedIds
            notfound == NotFoundIds
            done == Processed
        IN  /\ rows = loaded \cap done
            /\ rows \cap notfound = {}
            /\ Cardinality(rows) = Len(results)
            /\ Built => Len(results) = 15 - Cardinality(notfound)
            /\ \A i \in DOMAIN results :
                  cache[results[i].Strategy] = ZeroFrame => AllZero(results[i].metrics)

\* C1 witness: the build has returned with some ids not found, an all-zero
\* table loaded for id 15 and a row of zeros for it
C1_Witness ==
    /\ pc = "returned"
    /\ NotFoundIds = {2, 7}
    /\ cache[15] = ZeroFrame
    /\ Len(results) = 13
    /\ results[13].Strategy = 15
    /\ AllZero(results[13].metrics)

\* C2: when every load returned None the summary has no rows, main reports
\* the error and stops, and no table, chart, best-performer or export step
\* has run; when at least one table loaded the empty-summary error is never
\* reported, whatever the rates of the loaded tables are.
C2_EmptySummary ==
    LET allNotFound == \A id \in StrategyRange : cache[id].kind = "None"
        someLoaded == \E id \in StrategyRange : cache[id].kind = "df"
    IN  /\ (Built /\ allNotFound) =>
              /\ Empty(results)
              /\ shown.steps \cap PresentationSteps = {}
              /\ pc \in {"returned", "stopped"}
        /\ pc = "stopped" => shown.steps = {"error"} /\ allNotFound
        /\ "error" \in shown.steps => pc = "stopped"
        /\ someLoaded => "error" \notin shown.steps
        /\ shown.steps \cap PresentationSteps # {} => someLoaded

\* C2 witness: all fifteen loads returned None and main has reported the error
C2_Witness ==
    /\ pc = "stopped"
    /\ NotFoundIds = StrategyRange
    /\ shown.steps = {"error"}
    /\ Empty(results)

\* the ids a consumer finds skipped: `strategy_num not in age_distributions`
Skipped(dists) == {num \in StrategyRange : num \notin DOMAIN dists}

C4_AnyFailureIsNotFound ==
    /\ ~IsRaise(last.result)
    /\ pc = "raised" => error.exc = "KeyError"

\* the column's sum taken over the set of row positions
RECURSIVE SumOverSet(_, _, _)
SumOverSet(rows, col, S) ==
    IF S = {} THEN 0
    ELSE LET i == CHOOSE j \in S : TRUE
         IN  rows[i][col] + SumOverSet(rows, col, S \ {i})

RowOrders(n) == {f \in [1..n -> 1..n] : Injective(f)}

Permuted(df, f) == [df EXCEPT !.rows = [i \in DOMAIN df.rows |-> df.rows[f[i]]]]

\* the total calculate_metrics reports for a count column
TotalOf(m, col) ==
    CASE col = "Cancer" -> m.total_cancers
      [] col = "Cancer death" -> m.total_cancer_deaths
      [] col = "Population" -> m.total_life_years
      [] col = "Total test" -> m.total_tests
      [] col = "Cyto" -> m.total_cyto
      [] col = "HPV" -> m.total_hpv
      [] col = "Cotest" -> m.total_cotest
      [] col = "CIN2 detected" -> m.total_cin2_detected
      [] OTHER -> m.total_cin3_detected

\* C5: every total calculate_metrics returns is the sum of its column over
\* all rows of the table, whatever their ages, and every reordering of the
\* rows gives the same metrics; the rows Cancer=[1,2,3], Cancer death=[0,1,1],
\* Population=[100,100,100] give 6, 2 and 300.
C5_UnconditionalSum ==
    (pc = "agg_done" /\ df_arg.kind = "df") =>
        /\ \A col \in CountColumns \cap df_arg.columns :
              TotalOf(metrics, col) = SumOverSet(df_arg.rows, col, DOMAIN df_arg.rows)
        /\ \A f \in RowOrders(Len(df_arg.rows)) :
              calculate_metrics(Permuted(df_arg, f)) = metrics
        /\ {df_arg.rows[i]["Age"] : i \in DOMAIN df_arg.rows} = {1, 2, 3} =>
              /\ metrics.total_cancers = 6
              /\ metrics.total_cancer_deaths = 2
              /\ metrics.total_life_years = 300

\* C5 witness: the rows of ages 3, 1, 2, in that order, were aggregated
C5_Witness ==
    /\ pc = "agg_done"
    /\ df_arg.kind = "df"
    /\ Len(df_arg.rows) = 3
    /\ df_arg.rows[1]["Age"] = 3 /\ df_arg.rows[2]["Age"] = 1 /\ df_arg.rows[3]["Age"] = 2
    /\ metrics.total_cancers = 6
    /\ metrics.total_life_years = 300

\* the rate q is exactly num / den * factor
IsRatio(q, num, den, factor) == q.kind = "num" /\ q.n * den = num * factor * q.d

\* C6: the rates are defined for all totals: case_fatality_rate is
\* deaths / cancers * 100 when cancers > 0 and 0 otherwise; the two rates per
\* 100k are cancers (deaths) / life years * 100000 when life years > 0 and 0
\* otherwise; no rate is the nan or inf of a division by zero.
C6_RatesTotal ==
    pc = "agg_done" /\ metrics.kind = "metrics" =>
        LET m == metrics IN
        /\ m.case_fatality_rate.kind = "num"
        /\ m.cancer_rate_per_100k.kind = "num"
        /\ m.death_rate_per_100k.kind = "num"
        /\ IF m.total_cancers > 0
           THEN IsRatio(m.case_fatality_rate, m.total_cancer_deaths, m.total_cancers, 100)
           ELSE m.case_fatality_rate = Zero
        /\ IF m.total_life_years > 0
           THEN /\ IsRatio(m.cancer_rate_per_100k, m.total_cancers,
                           m.total_life_years, 100000)
                /\ IsRatio(m.death_rate_per_100k, m.total_cancer_deaths,
                           m.total_life_years, 100000)
           ELSE m.cancer_rate_per_100k = Zero /\ m.death_rate_per_100k = Zero
        /\ (m.total_cancers = 6 /\ m.total_cancer_deaths = 2 /\ m.total_life_years = 300)
              => m.cancer_rate_per_100k = [kind |-> "num", n |-> 2000, d |-> 1]

\* C6 witness: deaths without cancers and without life years were aggregated
C6_Witness ==
    /\ pc = "agg_done"
    /\ metrics.kind = "metrics"
    /\ metrics.total_cancers = 0
    /\ metrics.total_cancer_deaths = 5
    /\ metrics.total_life_years = 0
    /\ metrics.case_fatality_rate = Zero
    /\ metrics.death_rate_per_100k = Zero

\* C7: a table that lacks any one of the nine count columns is aggregated
\* without an error, the total of the lacking column being 0.
C7_AllCountColumnsOptional ==
    (pc \in {"agg_done", "agg_raised"} /\ df_arg.kind = "df") =>
        /\ metrics.kind = "metrics"
        /\ \A col \in CountColumns \ df_arg.columns : TotalOf(metrics, col) = 0

\* C8: over any sequence of load_strategy_data calls the resource of an id is
\* read at most once, every call that returns gives the result the first
\* call for that id gave (None included), and a cached result stays cached.
C8_Memoized ==
    \A id \in StrategyRange :
        /\ reads[id] <= 1
        /\ (last.id = id /\ ~IsRaise(last.result)) => last.result = first[id]
        /\ first[id].kind # "miss" => cache[id] = first[id]

\* the catalog entries are well formed
WellFormed(catalog) ==
    /\ DOMAIN catalog = 1..15
    /\ \A id \in DOMAIN catalog :
          LET d == catalog[id] IN
          /\ d.start_age < d.end_age
          /\ d.exit_tests \in {1, 2, 3}
          /\ d.switch_age # <<>> <=> d.test # "Cyto only"
          /\ d.switch_age # <<>> =>
                d.start_age < d.switch_age[1] /\ d.switch_age[1] < d.end_age

\* C9: the catalog holds exactly the ids 1..15, every entry has
\* start_age < end_age, 1 to 3 exit tests, a switch age exactly when the
\* test is not cytology only, the switch age strictly between start and end
\* age; and no step of the program changes the catalog.
C9_CatalogWellFormed ==
    /\ [](WellFormed(STRATEGY_DEFINITIONS))
    /\ [][STRATEGY_DEFINITIONS' = STRATEGY_DEFINITIONS]_vars

\* C9 witness: a whole render pass has run over the fifteen entries
C9_Witness ==
    /\ pc = "done"
    /\ DOMAIN STRATEGY_DEFINITIONS = 1..15
    /\ Len(shown.strategy_table) = 15

\* the two sort-key lambdas on the display string of every catalog entry
SortKeysAgree ==
    \A id \in DOMAIN StrategyCatalog :
        LET x == StrategyCatalog[id].display IN
        /\ sort_key_overview(x) = sort_key_detail(x)
        /\ sort_key_detail(x) = IF id <= 9 THEN id ELSE id + 3

\* the Strategy (display) column of a rendered table
StrategyColumn(table) == [i \in DOMAIN table |-> table[i].Strategy]

\* C10: the two sort-key lambdas give every catalog id the same key, id for
\* the ids up to 9 and id + 3 above (13 for id 10), and the overview table,
\* the detailed table and the outcome charts show the strategies in one and
\* the same order.
C10_OneSortKey ==
    /\ SortKeysAgree
    /\ pc = "done" =>
          /\ StrategyColumn(shown.strategy_table) = StrategyColumn(shown.display_df)
          /\ StrategyColumn(shown.display_df) = [i \in DOMAIN shown.main_fig |-> shown.main_fig[i].x]

\* C10 witness: all fifteen strategies are shown, id 10 in tenth place with key 13
C10_Witness ==
    /\ pc = "done"
    /\ Len(shown.display_df) = 15
    /\ shown.display_df[10].Strategy = <<"1", "0">>
    /\ shown.strategy_table[10].Strategy = <<"1", "0">>
    /\ sort_key_detail(shown.display_df[10].Strategy) = 13

\* row i of the summary carries the definition fields of the catalog entry
\* of its own id
CarriesDefinition(row, catalog) ==
    /\ row.Strategy \in DOMAIN catalog
    /\ LET d == catalog[row.Strategy] IN
        /\ row.Display = d.display
        /\ row.Name = d.name
        /\ row.Test_Type = d.test
        /\ row.Start_Age = d.start_age
        /\ row.End_Age = d.end_age
        /\ row.Exit_Tests = d.exit_tests
        /\ row.Interval = d.interval

\* the rows of the summary: ascending ids, each joined with its own catalog
\* entry; the row appended last holds the metrics of its own id's table; the
\* exported table has the rows in the same order
RowsJoined ==
    pc # "raised" =>
        /\ \A i \in DOMAIN results :
              /\ i > 1 => results[i - 1].Strategy < results[i].Strategy
              /\ CarriesDefinition(results[i], STRATEGY_DEFINITIONS)
        /\ (pc = "build" /\ results # <<>>) =>
              LET row == results[Len(results)]
              IN  /\ row.Strategy \in DOMAIN age_distributions
                  /\ row.metrics = calculate_metrics(age_distributions[row.Strategy])
                  /\ cache[row.Strategy] = age_distributions[row.Strategy]
        /\ pc = "done" =>
              /\ Len(shown.csv) = Len(results)
              /\ \A i \in DOMAIN results :
                    /\ shown.csv[i][1] = results[i].Strategy
                    /\ shown.csv[i][3] = results[i].metrics

\* a step of the loop only appends: the rows already there stay as they are
RowsKept ==
    (pc = "build" /\ pc' # "raised") =>
        /\ Len(results') >= Len(results)
        /\ SubSeq(results', 1, Len(results)) = results

\* C11: the summary rows are keyed by strategy id, no id twice, in strictly
\* ascending id order, which is also the row order of the exported table;
\* each row carries name, test, start age, end age and exit tests of the
\* catalog entry of its id and the metrics aggregated from that id's table.
C11_RowsJoinedById ==
    /\ []RowsJoined
    /\ [][RowsKept]_vars

\* C11 witness: the summary was exported with id 2 not found, so that the
\* second row is the row of id 3 with the definition of strategy 3
C11_Witness ==
    /\ pc = "done"
    /\ cache[2].kind = "None"
    /\ Len(shown.csv) = 14
    /\ shown.csv[2][1] = 3
    /\ results[2].Name = StrategyCatalog[3].name
    /\ results[2].metrics.total_cancers = 6

\* a step taken after load_all_strategies has returned leaves the cached
\* tables, the summary and the per-strategy tables as they are (an uncaught
\* exception ends the script and with it main's locals)
StoredKept ==
    pc = "returned" =>
        /\ cache' = cache
        /\ pc' # "raised" => results' = results /\ age_distributions' = age_distributions

\* what is exported is what is stored, and the stored rates are the exact
\* values calculate_metrics gave, while the detailed table holds formatted
\* text
ExportUnrounded ==
    pc = "done" =>
        /\ Len(shown.csv) = Len(results)
        /\ Len(shown.display_df) = Len(results)
        /\ \A i \in DOMAIN results :
              /\ shown.csv[i][3] = results[i].metrics
              /\ results[i].metrics.kind = "metrics"
              /\ results[i].metrics.total_life_years \in Nat
              /\ results[i].metrics.case_fatality_rate.kind = "num"
              /\ results[i].metrics.cancer_rate_per_100k.kind = "num"
              /\ results[i].metrics.death_rate_per_100k.kind = "num"
              /\ shown.display_df[i].Case_Fatality.kind = "str"
              /\ shown.display_df[i].Total_Life_Years.kind = "str"

\* C12: once load_all_strategies has returned, no presentation step (overview
\* table, charts, detailed table with its sorting and formatting, best
\* performers, export) changes the summary, the per-strategy tables or the
\* cache; rounding and formatting reach only the display copy, and the
\* exported summary holds the unrounded metrics.
C12_StoredReadOnly ==
    /\ [][StoredKept]_vars
    /\ []ExportUnrounded

\* C12 witness: strategy 1 is shown with case fatality 33.3 (formatted from
\* 100/3) while the stored and the exported value are still 100/3
C12_Witness ==
    /\ pc = "done"
    /\ results[1].Strategy = 1
    /\ results[1].metrics.case_fatality_rate = [kind |-> "num", n |-> 100, d |-> 3]
    /\ shown.csv[1][3].case_fatality_rate = [kind |-> "num", n |-> 100, d |-> 3]
    /\ shown.display_df[1].Case_Fatality = [kind |-> "str", decimals |-> 1, scaled |-> 333]

\* the ids whose load has been attempted (each attempt of a fresh process
\* reads the resource)
Attempted == {id \in StrategyRange : reads[id] > 0}

\* the loop attempts the ids in ascending order, each once: while it runs the
\* attempted ids are those below strategy_num
AscendingOnce ==
    /\ \A id \in StrategyRange : reads[id] <= 1
    /\ pc = "build" => Attempted = {id \in StrategyRange : id < strategy_num}

\* once the loop is left, every catalog id has been attempted exactly once
AllAttempted == pc # "build" => \A id \in StrategyRange : reads[id] = 1

\* presentation has used the result only after the last id was processed
ConsumedAfterLast == shown # NothingShown => (Built /\ strategy_num = 16)

\* C13: load_all_strategies always terminates with its result, whatever the
\* tables found or not found: it attempts the load of each catalog id exactly
\* once, in ascending id order, goes on to the next id after a load that
\* returned None, and presentation uses the result only after the last id
\* has been processed.
C13_BuildCompletes ==
    /\ <>Built
    /\ []AscendingOnce
    /\ []AllAttempted
    /\ []ConsumedAfterLast

====
